---- MODULE Spec2Model ----
(***************************************************************************)
(* The call session of the LoanMate voice bot (src/app.py): the            *)
(* process-wide dictionary active_call_data and the three Flask routes     *)
(* that read and write it: index ('/'), initiate_call_route                *)
(* ('/initiate_call') and process_audio_route ('/process_audio').          *)
(*                                                                         *)
(* Flask runs every request in a worker thread of its own (app.run, the    *)
(* threaded development server; an async view is driven by an event loop   *)
(* private to that thread), so requests share active_call_data with no     *)
(* lock.  A step of the model is one Python statement that reads or writes *)
(* active_call_data, together with the thread-local computation around it; *)
(* threads interleave between statements.  pc[p] names the source line the *)
(* worker p executes next.                                                 *)
(***************************************************************************)
EXTENDS Integers, Sequences, FiniteSets, TLC

(***************************************************************************)
(* Bounds of the model.                                                    *)
(***************************************************************************)
\* worker threads of the server
MaxThreads == 2
\* calls of /initiate_call and /process_audio in one run when requests
\* may overlap
MaxOps == 2
\* the same when requests are served one at a time
MaxOpsSeq == 2
\* loads of the index page in one run
MaxPageLoads == 1
\* calls of /initiate_call and /process_audio in one run of the long call
MaxOpsLong == 23
\* the same in one run of the call in which a name is given twice
MaxOpsRetry == 3

Procs == 1..MaxThreads

\* the value None
None == [none |-> TRUE]

(***************************************************************************)
(* Constants of the program.                                               *)
(***************************************************************************)
MAX_HISTORY_TURNS == 10

UNKNOWN_CUSTOMER_PLACEHOLDER == "the customer (name not yet identified)"

NOT_AVAILABLE == "N/A (details not yet available)"

\* the fixed utterances of call_gemini_model
MOCK_CLARIFY == "Thank you. My name is Mock User. What is this call regarding?"

MOCK_ASK_NAME == "Hello, this is LoanMate from Global Finance Solutions. Could you please tell me your full name so I can bring up your account details?"

MockGreeting(name) == "Hello " \o name \o ", this is LoanMate from Global Finance Solutions. Your mock loan of $1000 is due. Can you pay?"

CONTENT_FILTER_REPLY == "My apologies, my response was prevented due to a content filter. Could we try rephrasing or discussing a different aspect?"

LOSS_FOR_WORDS_REPLY == "I seem to be at a loss for words. Could you try that again?"

TROUBLE_CONNECTING_REPLY == "I'm sorry, I'm having trouble connecting to my main system right now. Please try again in a moment."

\* the fixed utterances of text_to_speech and process_audio_route
TTS_EMPTY_TEXT == "I encountered an internal error and cannot respond right now."

TTS_FALLBACK_TEXT == "I'm having trouble speaking at the moment. Please try again later."

DIDNT_CATCH_TEXT == "I'm sorry, I didn't catch that. Could you please repeat?"

UNEXPECTED_PROBLEM_TEXT == "I've encountered an unexpected problem. Please try your request again later."

(***************************************************************************)
(* The customer directory: the rows of customer_df after load_data.        *)
(* load_data coerces 'Monthly Debt' and 'Current Loan Amount' to numbers   *)
(* but only fills the holes of 'Credit Score', so a row of the CSV whose   *)
(* score is not a number keeps it as text, and pandas then reads the whole *)
(* column as text.                                                         *)
(***************************************************************************)
customer_df ==
  << [Random_Name |-> "John Doe", CreditScore |-> "700",
      MonthlyDebt |-> 500, CurrentLoanAmount |-> 10000],
     [Random_Name |-> "Mary Major", CreditScore |-> "unknown",
      MonthlyDebt |-> 301, CurrentLoanAmount |-> 0] >>

\* what a caller may type in the name field of the page
NameInputs == {"", "  john doe ", "Mary Major", "Jane Smith"}

\* what a caller may say, as transcribed
Spoken == {"", "John Doe", "Mary Major", "Jane Smith"}

\* str.strip()
Strip(s) == IF s = "  john doe " THEN "john doe" ELSE s

\* str.lower()
LowerName(s) ==
  CASE s = "John Doe" -> "john doe"
    [] s = "Mary Major" -> "mary major"
    [] s = "Jane Smith" -> "jane smith"
    [] OTHER -> s

\* customer_df[customer_df['Random_Name'].str.strip().str.lower() == name.strip().lower()]
MatchingRows(name) ==
  SelectSeq(customer_df,
            LAMBDA row : LowerName(Strip(row.Random_Name)) = LowerName(Strip(name)))

get_customer_details(name) ==
  IF customer_df = << >> THEN None
  ELSE IF MatchingRows(name) # << >> THEN Head(MatchingRows(name))
  ELSE None

(***************************************************************************)
(* Texts.  Lower is str.lower() and Contains is Python's "needle in text", *)
(* both tabulated over the utterances of the model.                        *)
(***************************************************************************)
\* what Gemini may answer, before .strip()
LlmRawTexts ==
  { "What is your full name?",
    " Could you tell me your NAME? ",
    "What is your preferred payment date?",
    "   " }

\* str.strip() of a model answer
StripText(t) ==
  CASE t = " Could you tell me your NAME? " -> "Could you tell me your NAME?"
    [] t = "   " -> ""
    [] OTHER -> t

\* str.lower() of an agent utterance
Lower(t) ==
  CASE t = "What is your full name?" -> "what is your full name?"
    [] t = "Could you tell me your NAME?" -> "could you tell me your name?"
    [] t = "What is your preferred payment date?" -> "what is your preferred payment date?"
    [] t = MOCK_CLARIFY -> "thank you. my name is mock user. what is this call regarding?"
    [] t = MOCK_ASK_NAME -> "hello, this is loanmate from global finance solutions. could you please tell me your full name so i can bring up your account details?"
    [] OTHER -> "(a text with none of the phrases)"

\* needle in text, for a lower-cased text
Contains(text, needle) ==
  CASE needle = "name" ->
         text \in { "what is your full name?",
                    "could you tell me your name?",
                    "thank you. my name is mock user. what is this call regarding?",
                    "hello, this is loanmate from global finance solutions. could you please tell me your full name so i can bring up your account details?" }
    [] needle = "what is your" ->
         text \in { "what is your full name?",
                    "what is your preferred payment date?" }
    [] needle = "could you tell me" ->
         text \in { "could you tell me your name?" }
    [] OTHER -> FALSE

\* the test of lines 395-396 on the reply
AsksForName(bot_response_text) ==
  /\ Contains(Lower(bot_response_text), "name")
  /\ \/ Contains(Lower(bot_response_text), "what is your")
     \/ Contains(Lower(bot_response_text), "could you tell me")

(***************************************************************************)
(* The prompt composer.  Amounts are whole currency units; a formatted     *)
(* amount is computed in hundredths.                                       *)
(***************************************************************************)
Pad2(n) == IF n < 10 THEN "0" \o ToString(n) ELSE ToString(n)

Pad3(n) == IF n < 10 THEN "00" \o ToString(n)
           ELSE IF n < 100 THEN "0" \o ToString(n) ELSE ToString(n)

RECURSIVE Grouped(_)
\* the ",": thousands separators
Grouped(n) == IF n < 1000 THEN ToString(n)
              ELSE Grouped(n \div 1000) \o "," \o Pad3(n % 1000)

\* f"${float(amount):,.2f}" of an amount given in hundredths
FormatHundredths(h) == "$" \o Grouped(h \div 100) \o "." \o Pad2(h % 100)

\* the amounts of customer_df are numbers after load_data, so the except
\* branch of format_currency is not taken
format_currency(amount) == FormatHundredths(amount * 100)

\* the texts int() accepts
IntTexts == {"700", "0"}

\* 'N/A' if not score_val or score_val == 0 else str(int(score_val));
\* int() of a text that is no integer raises ValueError
ScoreRaises(score_val) == score_val # "" /\ score_val \notin IntTexts

ScoreText(score_val) == IF score_val = "" THEN "N/A" ELSE score_val

\* the arguments LLM_SYSTEM_PROMPT_TEMPLATE.format() is given; raises is
\* TRUE when generate_system_prompt ends in an exception instead
generate_system_prompt(customer_info_dict) ==
  IF customer_info_dict # None
  THEN [ raises |-> ScoreRaises(customer_info_dict.CreditScore),
         customer_name |-> customer_info_dict.Random_Name,
         loan_amount |-> format_currency(customer_info_dict.CurrentLoanAmount),
         monthly_debt |-> format_currency(customer_info_dict.MonthlyDebt),
         half_monthly_debt |-> FormatHundredths(customer_info_dict.MonthlyDebt * 50),
         credit_score_text |-> ScoreText(customer_info_dict.CreditScore),
         unknown_customer_placeholder |-> UNKNOWN_CUSTOMER_PLACEHOLDER ]
  ELSE [ raises |-> FALSE,
         customer_name |-> UNKNOWN_CUSTOMER_PLACEHOLDER,
         loan_amount |-> NOT_AVAILABLE,
         monthly_debt |-> NOT_AVAILABLE,
         half_monthly_debt |-> NOT_AVAILABLE,
         credit_score_text |-> NOT_AVAILABLE,
         unknown_customer_placeholder |-> UNKNOWN_CUSTOMER_PLACEHOLDER ]

\* UNKNOWN_CUSTOMER_PLACEHOLDER in system_prompt: the template names the
\* placeholder in its line 104 whatever the customer
PlaceholderInPrompt(system_prompt) ==
  \/ system_prompt.unknown_customer_placeholder = UNKNOWN_CUSTOMER_PLACEHOLDER
  \/ system_prompt.customer_name = UNKNOWN_CUSTOMER_PLACEHOLDER

NoPrompt == [raises |-> FALSE, customer_name |-> "", loan_amount |-> "",
             monthly_debt |-> "", half_monthly_debt |-> "",
             credit_score_text |-> "", unknown_customer_placeholder |-> ""]

(***************************************************************************)
(* The dialogue engine, call_gemini_model.                                 *)
(***************************************************************************)
\* what model.generate_content may do
BackendOutcomes ==
  { [kind |-> "text", text |-> t] : t \in LlmRawTexts }
    \cup { [kind |-> "blocked", text |-> ""], [kind |-> "error", text |-> ""] }

\* LiveReply without the test of line 233 for an empty answer
LiveReply_keeps_empty(outcome) ==
  IF outcome.kind = "error" THEN TROUBLE_CONNECTING_REPLY
  ELSE IF outcome.kind = "blocked" THEN CONTENT_FILTER_REPLY
  ELSE StripText(outcome.text)

\* lines 190-242: the reply of the configured backend
LiveReply(outcome) ==
  IF outcome.kind = "error" THEN TROUBLE_CONNECTING_REPLY
  ELSE IF outcome.kind = "blocked" THEN CONTENT_FILTER_REPLY
  ELSE IF StripText(outcome.text) = "" THEN LOSS_FOR_WORDS_REPLY
  ELSE StripText(outcome.text)

\* lines 185-188: the mock reply when line 180 did not answer
MockReply(info) ==
  IF info # None THEN MockGreeting(info.Random_Name) ELSE MOCK_ASK_NAME

(***************************************************************************)
(* The speech adapter, text_to_speech.                                     *)
(***************************************************************************)
\* what one call of stream_memory may do
TtsResults == {"audio", "raise", "no_stream", "empty_audio"}

\* text_to_speech without the fallback request of lines 272-284
text_to_speech_no_retry(text, first, second) ==
  IF first = "audio"
  THEN [ok |-> TRUE, said |-> IF text = "" THEN TTS_EMPTY_TEXT ELSE text,
        attempts |-> 1]
  ELSE [ok |-> FALSE, said |-> "", attempts |-> 1]

\* the result of text_to_speech(text) when the provider answers first to
\* the first request and second to the fallback request
text_to_speech(text, first, second) ==
  LET said == IF text = "" THEN TTS_EMPTY_TEXT ELSE text
  IN  IF first = "audio" THEN [ok |-> TRUE, said |-> said, attempts |-> 1]
      ELSE IF second = "audio"
           THEN [ok |-> TRUE, said |-> TTS_FALLBACK_TEXT, attempts |-> 2]
           ELSE [ok |-> FALSE, said |-> "", attempts |-> 2]

\* a call of text_to_speech as a request remembers it
TtsCall(text, first, second) ==
  [text |-> text, first |-> first, second |-> second,
   result |-> text_to_speech(text, first, second)]

\* conversation_history[-(MAX_HISTORY_TURNS * 2):]
LastN(h, n) == IF Len(h) <= n THEN h ELSE SubSeq(h, Len(h) - n + 1, Len(h))

\* Trimmed dropping one whole pair of entries from the front instead of
\* keeping the last 2 * MAX_HISTORY_TURNS
Trimmed_whole_pairs(h) ==
  IF Len(h) > MAX_HISTORY_TURNS * 2 THEN SubSeq(h, 3, Len(h)) ELSE h

\* lines 403-405
Trimmed(h) ==
  IF Len(h) > MAX_HISTORY_TURNS * 2 THEN LastN(h, MAX_HISTORY_TURNS * 2) ELSE h

UserTurn(text) == [role |-> "user", text |-> text]

ModelTurn(text) == [role |-> "model", text |-> text]

(***************************************************************************)
(* State.                                                                  *)
(***************************************************************************)
VARIABLES
  \* active_call_data, lines 123-127
  customer_info,
  conversation_history,
  asked_for_name_in_last_turn,
  \* line 40: set once, when the module is loaded
  gemini_configured,
  \* the deployment: how many requests the server runs at once, what the
  \* callers type and say, what the language-model backend answers, what
  \* the speech provider does
  workers,
  typed,
  spoken,
  backend,
  provider,
  \* the requests still to come: calls of the two routes, page loads
  opsLeft,
  pagesLeft,
  \* per worker thread: the route it runs, the line it is at, its locals
  op,
  pc,
  customer_name_input,
  transcript,
  customer_details,
  system_prompt,
  bot_response_text,
  failure,
  response,
  \* the last call of text_to_speech the request made: the text it was
  \* given, what the provider did, what came of it
  tts_call,
  \* active_call_data as the request found it
  before,
  \* since the last /initiate_call began: it found its name in the
  \* directory; the index page was loaded
  started_resolved,
  page_reloaded,
  \* since the session was last reset: a name the caller said was looked
  \* up and not found
  name_rejected,
  \* per worker thread: an /initiate_call has begun while the turn the
  \* thread runs was between its first and its last statement
  overtaken

session == <<customer_info, conversation_history, asked_for_name_in_last_turn>>

deployment == <<gemini_configured, workers, typed, spoken, backend, provider>>

locals == <<customer_name_input, transcript, customer_details, system_prompt,
            bot_response_text, failure, response, tts_call>>

call_marks == <<started_resolved, page_reloaded, name_rejected, overtaken>>

vars == <<session, deployment, opsLeft, pagesLeft, op, pc, locals, before,
          call_marks>>

Session == [customer_info |-> customer_info,
            conversation_history |-> conversation_history,
            asked_for_name_in_last_turn |-> asked_for_name_in_last_turn]

NoSession == [customer_info |-> None, conversation_history |-> << >>,
              asked_for_name_in_last_turn |-> FALSE]

NoTtsCall == [text |-> "", first |-> "not_called", second |-> "not_called",
              result |-> [ok |-> FALSE, said |-> "", attempts |-> 0]]

NoResponse == [status |-> 0, body |-> "", said |-> "", error |-> ""]

Audio(status, said) == [status |-> status, body |-> "audio", said |-> said, error |-> ""]

Json(status, error) == [status |-> status, body |-> "json", said |-> "", error |-> error]

Html(status) == [status |-> status, body |-> "html", said |-> "", error |-> ""]

InitWith(w, t, s, b, v, n) ==
  /\ customer_info = None
  /\ conversation_history = << >>
  /\ asked_for_name_in_last_turn = FALSE
  /\ gemini_configured \in BOOLEAN
  /\ workers = w
  /\ typed = t
  /\ spoken = s
  /\ backend = b
  /\ provider = v
  /\ opsLeft = n
  /\ pagesLeft = MaxPageLoads
  /\ op = [p \in Procs |-> "none"]
  /\ pc = [p \in Procs |-> "idle"]
  /\ customer_name_input = [p \in Procs |-> ""]
  /\ transcript = [p \in Procs |-> ""]
  /\ customer_details = [p \in Procs |-> None]
  /\ system_prompt = [p \in Procs |-> NoPrompt]
  /\ bot_response_text = [p \in Procs |-> ""]
  /\ failure = [p \in Procs |-> ""]
  /\ response = [p \in Procs |-> NoResponse]
  /\ tts_call = [p \in Procs |-> NoTtsCall]
  /\ before = [p \in Procs |-> NoSession]
  /\ started_resolved = FALSE
  /\ page_reloaded = FALSE
  /\ name_rejected = FALSE
  /\ overtaken = [p \in Procs |-> FALSE]

\* requests may overlap; the callers are John Doe and people who give no
\* name, and the speech provider answers or raises
Init ==
  InitWith(MaxThreads, {"", "John Doe"}, {"", "John Doe"},
           {[kind |-> "text", text |-> "What is your full name?"],
            [kind |-> "error", text |-> ""]}, {"audio", "raise"}, MaxOps)

\* what the provider may do with the fallback request, which is made
\* only when the first request failed
FallbackResults(first) == IF first = "audio" THEN {"not_called"} ELSE provider

\* the worker the next request goes to: the first idle one, while the
\* server has a thread to spare
Accepts(p) ==
  /\ pc[p] = "idle"
  /\ \A q \in Procs : q < p => pc[q] # "idle"
  /\ Cardinality({q \in Procs : pc[q] # "idle"}) < workers

Begin(p, route, line) ==
  /\ Accepts(p)
  /\ IF route = "index"
     THEN pagesLeft > 0 /\ pagesLeft' = pagesLeft - 1 /\ UNCHANGED opsLeft
     ELSE opsLeft > 0 /\ opsLeft' = opsLeft - 1 /\ UNCHANGED pagesLeft
  /\ op' = [op EXCEPT ![p] = route]
  /\ pc' = [pc EXCEPT ![p] = line]
  /\ before' = [before EXCEPT ![p] = Session]

Goto(p, line) == pc' = [pc EXCEPT ![p] = line]

At(p, route, line) == op[p] = route /\ pc[p] = line

Respond(p, r) ==
  /\ response' = [response EXCEPT ![p] = r]
  /\ Goto(p, "done")

(***************************************************************************)
(* index, lines 291-297.                                                   *)
(***************************************************************************)
index_293(p) ==
  /\ Begin(p, "index", "L294")
  /\ customer_info' = None
  /\ page_reloaded' = TRUE
  /\ name_rejected' = FALSE
  /\ UNCHANGED <<conversation_history, asked_for_name_in_last_turn,
                 deployment, locals, started_resolved, overtaken>>

index_294(p) ==
  /\ At(p, "index", "L294")
  /\ conversation_history' = << >>
  /\ Goto(p, "L295")
  /\ UNCHANGED <<customer_info, asked_for_name_in_last_turn, deployment,
                 opsLeft, pagesLeft, op, locals, before, call_marks>>

index_295(p) ==
  /\ At(p, "index", "L295")
  /\ asked_for_name_in_last_turn' = FALSE
  /\ Respond(p, Html(200))
  /\ UNCHANGED <<customer_info, conversation_history, deployment, opsLeft, pagesLeft, op,
                 customer_name_input, transcript, customer_details,
                 system_prompt, bot_response_text, failure, before, call_marks>>
  /\ UNCHANGED tts_call

\* the response has been sent: the thread goes back to the pool
Return(p) ==
  /\ pc[p] = "done"
  /\ op' = [op EXCEPT ![p] = "none"]
  /\ pc' = [pc EXCEPT ![p] = "idle"]
  /\ customer_name_input' = [customer_name_input EXCEPT ![p] = ""]
  /\ transcript' = [transcript EXCEPT ![p] = ""]
  /\ customer_details' = [customer_details EXCEPT ![p] = None]
  /\ system_prompt' = [system_prompt EXCEPT ![p] = NoPrompt]
  /\ bot_response_text' = [bot_response_text EXCEPT ![p] = ""]
  /\ failure' = [failure EXCEPT ![p] = ""]
  /\ response' = [response EXCEPT ![p] = NoResponse]
  /\ tts_call' = [tts_call EXCEPT ![p] = NoTtsCall]
  /\ before' = [before EXCEPT ![p] = NoSession]
  /\ overtaken' = [overtaken EXCEPT ![p] = FALSE]
  /\ UNCHANGED <<session, deployment, opsLeft, pagesLeft, started_resolved,
                 page_reloaded, name_rejected>>

(***************************************************************************)
(* initiate_call_route, lines 300-341.                                     *)
(***************************************************************************)
\* lines 302-305: the request arrives with a name; the history is emptied
initiate_call_305(p) ==
  \E name \in typed :
    /\ Begin(p, "initiate_call", "L306")
    /\ customer_name_input' = [customer_name_input EXCEPT ![p] = Strip(name)]
    /\ conversation_history' = << >>
    /\ started_resolved' = FALSE
    /\ page_reloaded' = FALSE
    /\ name_rejected' = FALSE
    /\ overtaken' = [q \in Procs |->
                       /\ q # p
                       /\ op[q] = "process_audio"
                       /\ pc[q] \notin {"idle", "done"}]
    /\ UNCHANGED <<customer_info, asked_for_name_in_last_turn, deployment,
                   transcript, customer_details, system_prompt,
                   bot_response_text, failure, response>>
    /\ UNCHANGED tts_call

\* initiate_call_306 without the reset of customer_info
initiate_call_306_keeps_identity(p) ==
  /\ At(p, "initiate_call", "L306")
  /\ Goto(p, "L307")
  /\ UNCHANGED <<session, deployment, opsLeft, pagesLeft, op, locals, before,
                 call_marks>>

initiate_call_306(p) ==
  /\ At(p, "initiate_call", "L306")
  /\ customer_info' = None
  /\ Goto(p, "L307")
  /\ UNCHANGED <<conversation_history, asked_for_name_in_last_turn,
                 deployment, opsLeft, pagesLeft, op, locals, before, call_marks>>

\* lines 307-311: the flag is cleared, then the supplied name is looked up
initiate_call_307(p) ==
  /\ At(p, "initiate_call", "L307")
  /\ asked_for_name_in_last_turn' = FALSE
  /\ customer_details' =
       [customer_details EXCEPT ![p] =
          IF customer_name_input[p] # ""
          THEN get_customer_details(customer_name_input[p]) ELSE None]
  /\ Goto(p, "L312")
  /\ UNCHANGED <<customer_info, conversation_history, deployment, opsLeft, pagesLeft, op,
                 customer_name_input, transcript, system_prompt,
                 bot_response_text, failure, response, before, call_marks>>
  /\ UNCHANGED tts_call

\* lines 311-312: if customer_details: customer_info = customer_details
initiate_call_312(p) ==
  /\ At(p, "initiate_call", "L312")
  /\ customer_info' =
       IF customer_details[p] # None THEN customer_details[p] ELSE customer_info
  /\ started_resolved' = (started_resolved \/ customer_details[p] # None)
  /\ Goto(p, "L319")
  /\ UNCHANGED <<conversation_history, asked_for_name_in_last_turn,
                 deployment, opsLeft, pagesLeft, op, locals, before,
                 page_reloaded, name_rejected, overtaken>>

\* line 319; an exception of generate_system_prompt is not caught by the
\* route: Flask answers 500
initiate_call_319(p) ==
  /\ At(p, "initiate_call", "L319")
  /\ LET prompt == generate_system_prompt(customer_info)
     IN  IF prompt.raises
         THEN /\ failure' = [failure EXCEPT ![p] = "prompt"]
              /\ Respond(p, Html(500))
              /\ UNCHANGED system_prompt
         ELSE /\ system_prompt' = [system_prompt EXCEPT ![p] = prompt]
              /\ Goto(p, "L177")
              /\ UNCHANGED <<failure, response>>
  /\ UNCHANGED <<session, deployment, opsLeft, pagesLeft, op, customer_name_input,
                 transcript, customer_details, bot_response_text, before, call_marks>>
  /\ UNCHANGED tts_call

\* initiate_call_327 with the test of the reply that lines 395-396 make
initiate_call_327_tests_reply(p) ==
  /\ At(p, "initiate_call", "L327")
  /\ IF /\ customer_info = None
        /\ PlaceholderInPrompt(system_prompt[p])
        /\ AsksForName(bot_response_text[p])
     THEN Goto(p, "L330") ELSE Goto(p, "L333")
  /\ UNCHANGED <<session, deployment, opsLeft, pagesLeft, op, locals, before,
                 call_marks>>

\* lines 327-331: the test of line 327, which reads customer_info
initiate_call_327(p) ==
  /\ At(p, "initiate_call", "L327")
  /\ IF customer_info = None /\ PlaceholderInPrompt(system_prompt[p])
     THEN Goto(p, "L330") ELSE Goto(p, "L333")
  /\ UNCHANGED <<session, deployment, opsLeft, pagesLeft, op, locals, before, call_marks>>

initiate_call_330(p) ==
  /\ At(p, "initiate_call", "L330")
  /\ asked_for_name_in_last_turn' = TRUE
  /\ Goto(p, "L333")
  /\ UNCHANGED <<customer_info, conversation_history, deployment, opsLeft, pagesLeft, op,
                 locals, before, call_marks>>

initiate_call_333(p) ==
  /\ At(p, "initiate_call", "L333")
  /\ conversation_history' =
       Append(conversation_history, ModelTurn(bot_response_text[p]))
  /\ Goto(p, "L336")
  /\ UNCHANGED <<customer_info, asked_for_name_in_last_turn, deployment,
                 opsLeft, pagesLeft, op, locals, before, call_marks>>

\* lines 335-341
initiate_call_336(p) ==
  /\ At(p, "initiate_call", "L336")
  /\ \E first \in provider : \E second \in FallbackResults(first) :
       LET speech == text_to_speech(bot_response_text[p], first, second)
       IN  /\ tts_call' = [tts_call EXCEPT ![p] =
                             TtsCall(bot_response_text[p], first, second)]
           /\ IF speech.ok
              THEN /\ Respond(p, Audio(200, speech.said))
                   /\ UNCHANGED failure
              ELSE /\ Respond(p, Json(500, "TTS Error"))
                   /\ failure' = [failure EXCEPT ![p] = "tts"]
  /\ UNCHANGED <<session, deployment, opsLeft, pagesLeft, op, customer_name_input,
                 transcript, customer_details, system_prompt,
                 bot_response_text, before, call_marks>>

(***************************************************************************)
(* call_gemini_model, lines 176-242, as both routes await it.              *)
(***************************************************************************)
AfterGemini(p) == IF op[p] = "initiate_call" THEN "L327" ELSE "L393"

\* line 177, then either the configured backend (lines 190-242) or the
\* first test of the mock (lines 180-183), which reads active_call_data
call_gemini_model_177(p) ==
  /\ pc[p] = "L177"
  /\ IF gemini_configured
     THEN \E outcome \in backend :
            /\ bot_response_text' =
                 [bot_response_text EXCEPT ![p] = LiveReply(outcome)]
            /\ Goto(p, AfterGemini(p))
     ELSE IF asked_for_name_in_last_turn /\ customer_info = None
          THEN /\ bot_response_text' =
                    [bot_response_text EXCEPT ![p] = MOCK_CLARIFY]
               /\ Goto(p, AfterGemini(p))
          ELSE /\ Goto(p, "L185")
               /\ UNCHANGED bot_response_text
  /\ UNCHANGED <<session, deployment, opsLeft, pagesLeft, op, customer_name_input,
                 transcript, customer_details, system_prompt, failure,
                 response, before, call_marks>>
  /\ UNCHANGED tts_call

\* lines 185-188, which read customer_info again
call_gemini_model_185(p) ==
  /\ pc[p] = "L185"
  /\ bot_response_text' =
       [bot_response_text EXCEPT ![p] = MockReply(customer_info)]
  /\ Goto(p, AfterGemini(p))
  /\ UNCHANGED <<session, deployment, opsLeft, pagesLeft, op, customer_name_input,
                 transcript, customer_details, system_prompt, failure,
                 response, before, call_marks>>
  /\ UNCHANGED tts_call

(***************************************************************************)
(* process_audio_route, lines 344-420.                                     *)
(***************************************************************************)
\* what transcribe_file may do: raise, answer without results, or answer
\* with a transcript
SttOutcomes ==
  { [kind |-> "raise", text |-> ""], [kind |-> "no_results", text |-> ""] }
    \cup { [kind |-> "text", text |-> t] : t \in spoken }

\* lines 364-367
TranscriptOf(stt) == IF stt.kind = "text" THEN stt.text ELSE ""

\* AfterStt without the test of line 369: an empty transcript goes on to
\* line 376
AfterStt_no_empty_check(stt) ==
  IF stt.kind = "raise" THEN "L415" ELSE "L376"

\* the line process_audio_route is at once transcription has ended
AfterStt(stt) ==
  IF stt.kind = "raise" THEN "L415"
  ELSE IF TranscriptOf(stt) = "" THEN "L371" ELSE "L376"

\* lines 346-369: the request arrives and the audio is transcribed
process_audio_346(p) ==
  \E has_audio \in BOOLEAN, stt \in SttOutcomes :
    IF ~has_audio
    THEN /\ Begin(p, "process_audio", "done")
         /\ response' = [response EXCEPT ![p] = Json(400, "No audio data")]
         /\ UNCHANGED <<session, deployment, customer_name_input, transcript,
                        customer_details, system_prompt, bot_response_text,
                        failure, tts_call, call_marks>>
    ELSE /\ Begin(p, "process_audio", AfterStt(stt))
         /\ transcript' = [transcript EXCEPT ![p] = TranscriptOf(stt)]
         /\ failure' = [failure EXCEPT ![p] =
                          IF stt.kind = "raise" THEN "stt" ELSE ""]
         /\ UNCHANGED <<session, deployment, customer_name_input,
                        customer_details, system_prompt, bot_response_text,
                        response, tts_call, call_marks>>

\* a call of text_to_speech inside the try of lines 352-410: its audio is
\* sent, or its exception is caught at line 412
SpeakOrCatch(p, text) ==
  \E first \in provider : \E second \in FallbackResults(first) :
    LET speech == text_to_speech(text, first, second)
    IN  /\ tts_call' = [tts_call EXCEPT ![p] = TtsCall(text, first, second)]
        /\ IF speech.ok
           THEN /\ Respond(p, Audio(200, speech.said))
                /\ UNCHANGED failure
           ELSE /\ Goto(p, "L415")
                /\ failure' = [failure EXCEPT ![p] = "tts"]
                /\ UNCHANGED response

\* lines 369-373: the empty transcript
process_audio_371(p) ==
  /\ At(p, "process_audio", "L371")
  /\ SpeakOrCatch(p, DIDNT_CATCH_TEXT)
  /\ UNCHANGED <<session, deployment, opsLeft, pagesLeft, op, customer_name_input,
                 transcript, customer_details, system_prompt,
                 bot_response_text, before, call_marks>>

process_audio_376(p) ==
  /\ At(p, "process_audio", "L376")
  /\ conversation_history' =
       Append(conversation_history, UserTurn(transcript[p]))
  /\ Goto(p, "L378")
  /\ UNCHANGED <<customer_info, asked_for_name_in_last_turn, deployment,
                 opsLeft, pagesLeft, op, locals, before, call_marks>>

\* process_audio_378 without the test of line 378: every transcript is
\* looked up
process_audio_378_always_looks_up(p) ==
  /\ At(p, "process_audio", "L378")
  /\ customer_details' =
       [customer_details EXCEPT ![p] =
          get_customer_details(Strip(transcript[p]))]
  /\ Goto(p, "L382")
  /\ UNCHANGED <<session, deployment, opsLeft, pagesLeft, op, customer_name_input,
                 transcript, system_prompt, bot_response_text, failure,
                 response, before, call_marks>>
  /\ UNCHANGED tts_call

\* process_audio_378 without the test of the flag: the transcript is
\* looked up whenever customer_info is absent
process_audio_378_ignores_flag(p) ==
  /\ At(p, "process_audio", "L378")
  /\ IF customer_info = None
     THEN /\ customer_details' =
               [customer_details EXCEPT ![p] =
                  get_customer_details(Strip(transcript[p]))]
          /\ Goto(p, "L382")
     ELSE /\ Goto(p, "L389")
          /\ UNCHANGED customer_details
  /\ UNCHANGED <<session, deployment, opsLeft, pagesLeft, op, customer_name_input,
                 transcript, system_prompt, bot_response_text, failure,
                 response, tts_call, before, call_marks>>

\* lines 378-380: the test of line 378 and the lookup of the transcript
process_audio_378(p) ==
  /\ At(p, "process_audio", "L378")
  /\ IF asked_for_name_in_last_turn /\ customer_info = None
     THEN /\ customer_details' =
               [customer_details EXCEPT ![p] =
                  get_customer_details(Strip(transcript[p]))]
          /\ Goto(p, "L382")
     ELSE /\ Goto(p, "L389")
          /\ UNCHANGED customer_details
  /\ UNCHANGED <<session, deployment, opsLeft, pagesLeft, op, customer_name_input,
                 transcript, system_prompt, bot_response_text, failure,
                 response, before, call_marks>>
  /\ UNCHANGED tts_call

\* process_audio_382 taking a name only while none has been rejected
process_audio_382_first_answer_only(p) ==
  /\ At(p, "process_audio", "L382")
  /\ customer_info' =
       IF customer_details[p] # None /\ ~name_rejected
       THEN customer_details[p] ELSE customer_info
  /\ name_rejected' = (name_rejected \/ customer_details[p] = None)
  /\ Goto(p, "L387")
  /\ UNCHANGED <<conversation_history, asked_for_name_in_last_turn,
                 deployment, opsLeft, pagesLeft, op, locals, before,
                 started_resolved, page_reloaded, overtaken>>

\* lines 381-382: if customer_details: customer_info = customer_details
process_audio_382(p) ==
  /\ At(p, "process_audio", "L382")
  /\ customer_info' =
       IF customer_details[p] # None THEN customer_details[p] ELSE customer_info
  /\ name_rejected' = (name_rejected \/ customer_details[p] = None)
  /\ Goto(p, "L387")
  /\ UNCHANGED <<conversation_history, asked_for_name_in_last_turn,
                 deployment, opsLeft, pagesLeft, op, locals, before,
                 started_resolved, page_reloaded, overtaken>>

\* process_audio_387 without the reset of the flag
process_audio_387_keeps_flag(p) ==
  /\ At(p, "process_audio", "L387")
  /\ Goto(p, "L389")
  /\ UNCHANGED <<session, deployment, opsLeft, pagesLeft, op, locals, before,
                 call_marks>>

process_audio_387(p) ==
  /\ At(p, "process_audio", "L387")
  /\ asked_for_name_in_last_turn' = FALSE
  /\ Goto(p, "L389")
  /\ UNCHANGED <<customer_info, conversation_history, deployment, opsLeft, pagesLeft, op,
                 locals, before, call_marks>>

\* process_audio_389 composing the prompt from customer_info as the turn
\* found it, before the lookup of lines 378-387
process_audio_389_stale_identity(p) ==
  /\ At(p, "process_audio", "L389")
  /\ system_prompt' =
       [system_prompt EXCEPT ![p] =
          [generate_system_prompt(before[p].customer_info)
             EXCEPT !.raises = FALSE]]
  /\ Goto(p, "L177")
  /\ UNCHANGED <<session, deployment, opsLeft, pagesLeft, op, customer_name_input,
                 transcript, customer_details, bot_response_text, failure,
                 response, tts_call, before, call_marks>>

\* line 389; an exception of generate_system_prompt is caught at line 412
process_audio_389(p) ==
  /\ At(p, "process_audio", "L389")
  /\ LET prompt == generate_system_prompt(customer_info)
     IN  IF prompt.raises
         THEN /\ failure' = [failure EXCEPT ![p] = "prompt"]
              /\ Goto(p, "L415")
              /\ UNCHANGED system_prompt
         ELSE /\ system_prompt' = [system_prompt EXCEPT ![p] = prompt]
              /\ Goto(p, "L177")
              /\ UNCHANGED failure
  /\ UNCHANGED <<session, deployment, opsLeft, pagesLeft, op, customer_name_input,
                 transcript, customer_details, bot_response_text, response,
                 before, call_marks>>
  /\ UNCHANGED tts_call

\* process_audio_393 without the test of the reply (lines 395-396), as
\* line 327 does it
process_audio_393_any_reply(p) ==
  /\ At(p, "process_audio", "L393")
  /\ IF customer_info = None /\ PlaceholderInPrompt(system_prompt[p])
     THEN Goto(p, "L397") ELSE Goto(p, "L400")
  /\ UNCHANGED <<session, deployment, opsLeft, pagesLeft, op, locals, before,
                 call_marks>>

\* process_audio_393 without the test of customer_info
process_audio_393_any_customer(p) ==
  /\ At(p, "process_audio", "L393")
  /\ IF /\ PlaceholderInPrompt(system_prompt[p])
        /\ AsksForName(bot_response_text[p])
     THEN Goto(p, "L397") ELSE Goto(p, "L400")
  /\ UNCHANGED <<session, deployment, opsLeft, pagesLeft, op, locals, before,
                 call_marks>>

\* process_audio_393 with a test of the reply that looks for "name" alone
process_audio_393_name_only(p) ==
  /\ At(p, "process_audio", "L393")
  /\ IF /\ customer_info = None
        /\ PlaceholderInPrompt(system_prompt[p])
        /\ Contains(Lower(bot_response_text[p]), "name")
     THEN Goto(p, "L397") ELSE Goto(p, "L400")
  /\ UNCHANGED <<session, deployment, opsLeft, pagesLeft, op, locals, before,
                 call_marks>>

\* lines 393-396: the test of line 393, which reads customer_info, and the
\* test of the reply
process_audio_393(p) ==
  /\ At(p, "process_audio", "L393")
  /\ IF /\ customer_info = None
        /\ PlaceholderInPrompt(system_prompt[p])
        /\ AsksForName(bot_response_text[p])
     THEN Goto(p, "L397") ELSE Goto(p, "L400")
  /\ UNCHANGED <<session, deployment, opsLeft, pagesLeft, op, locals, before, call_marks>>

process_audio_397(p) ==
  /\ At(p, "process_audio", "L397")
  /\ asked_for_name_in_last_turn' = TRUE
  /\ Goto(p, "L400")
  /\ UNCHANGED <<customer_info, conversation_history, deployment, opsLeft, pagesLeft, op,
                 locals, before, call_marks>>

process_audio_400(p) ==
  /\ At(p, "process_audio", "L400")
  /\ conversation_history' =
       Append(conversation_history, ModelTurn(bot_response_text[p]))
  /\ Goto(p, "L403")
  /\ UNCHANGED <<customer_info, asked_for_name_in_last_turn, deployment,
                 opsLeft, pagesLeft, op, locals, before, call_marks>>

\* lines 402-406
process_audio_403(p) ==
  /\ At(p, "process_audio", "L403")
  /\ conversation_history' = Trimmed(conversation_history)
  /\ Goto(p, "L408")
  /\ UNCHANGED <<customer_info, asked_for_name_in_last_turn, deployment,
                 opsLeft, pagesLeft, op, locals, before, call_marks>>

\* lines 408-410
process_audio_408(p) ==
  /\ At(p, "process_audio", "L408")
  /\ SpeakOrCatch(p, bot_response_text[p])
  /\ UNCHANGED <<session, deployment, opsLeft, pagesLeft, op, customer_name_input,
                 transcript, customer_details, system_prompt,
                 bot_response_text, before, call_marks>>

\* process_audio_415 answering with the structured error at once, without
\* the call of text_to_speech of lines 415-416
process_audio_415_no_speech(p) ==
  /\ At(p, "process_audio", "L415")
  /\ Respond(p, Json(500, "Critical System Error"))
  /\ UNCHANGED <<session, deployment, opsLeft, pagesLeft, op, customer_name_input,
                 transcript, customer_details, system_prompt,
                 bot_response_text, failure, tts_call, before, call_marks>>

\* lines 412-420: the handler of every exception of the try
process_audio_415(p) ==
  /\ At(p, "process_audio", "L415")
  /\ \E first \in provider : \E second \in FallbackResults(first) :
       LET speech == text_to_speech(UNEXPECTED_PROBLEM_TEXT, first, second)
       IN  /\ tts_call' = [tts_call EXCEPT ![p] =
                             TtsCall(UNEXPECTED_PROBLEM_TEXT, first, second)]
           /\ IF speech.ok
              THEN Respond(p, Audio(500, speech.said))
              ELSE Respond(p, Json(500, "Critical System Error"))
  /\ UNCHANGED <<session, deployment, opsLeft, pagesLeft, op, customer_name_input,
                 transcript, customer_details, system_prompt,
                 bot_response_text, failure, before, call_marks>>

(***************************************************************************)
(* The specifications.                                                     *)
(***************************************************************************)
Next ==
  \E p \in Procs :
    \/ index_293(p) \/ index_294(p) \/ index_295(p)
    \/ initiate_call_305(p) \/ initiate_call_306(p) \/ initiate_call_307(p)
    \/ initiate_call_312(p) \/ initiate_call_319(p) \/ initiate_call_327(p)
    \/ initiate_call_330(p) \/ initiate_call_333(p) \/ initiate_call_336(p)
    \/ call_gemini_model_177(p) \/ call_gemini_model_185(p)
    \/ process_audio_346(p) \/ process_audio_371(p) \/ process_audio_376(p)
    \/ process_audio_378(p) \/ process_audio_382(p) \/ process_audio_387(p)
    \/ process_audio_389(p) \/ process_audio_393(p) \/ process_audio_397(p)
    \/ process_audio_400(p) \/ process_audio_403(p) \/ process_audio_408(p)
    \/ process_audio_415(p)
    \/ Return(p)

\* requests overlap: the server as app.run starts it
Spec == Init /\ [][Next]_vars

\* requests are served one at a time, by every caller and every answer of
\* the language model; the speech provider answers or raises
InitSeq ==
  InitWith(1, NameInputs, Spoken, BackendOutcomes, {"audio", "raise"},
           MaxOpsSeq)

SpecSeq == InitSeq /\ [][Next]_vars

\* long calls, served one request at a time: the page is given no name or
\* Mary Major's, the caller says "Jane Smith" or nothing, the language
\* model has one answer, and the speech provider answers or raises
InitLong ==
  InitWith(1, {"", "Mary Major"}, {"", "Jane Smith"},
           {[kind |-> "text", text |-> "What is your full name?"]},
           {"audio", "raise"}, MaxOpsLong)

SpecLong == InitLong /\ [][Next]_vars

\* the speech provider does all it may do: requests are served one at a
\* time, the page is given no name, the caller says "Jane Smith" or
\* nothing, and the language model has one answer
InitSpeech ==
  InitWith(1, {""}, {"", "Jane Smith"},
           {[kind |-> "text", text |-> "What is your full name?"]},
           TtsResults, MaxOpsSeq)

SpecSpeech == InitSpeech /\ [][Next]_vars

\* a caller who gives a name more than once: requests are served one at a
\* time, the page is given no name, the caller says "Jane Smith" or
\* "John Doe", the language model asks for the name or for a date, and
\* the speech provider answers
InitRetry ==
  InitWith(1, {""}, {"Jane Smith", "John Doe"},
           {[kind |-> "text", text |-> "What is your full name?"],
            [kind |-> "text", text |-> "What is your preferred payment date?"]},
           {"audio"}, MaxOpsRetry)

SpecRetry == InitRetry /\ [][Next]_vars

(***************************************************************************)
(* What the claims speak of.                                               *)
(***************************************************************************)
\* no request is between its first and its last statement
Quiet == \A p \in Procs : pc[p] \in {"idle", "done"}

\* the request of p has been answered
Ended(p, route) == op[p] = route /\ pc[p] = "done"

\* p runs a route and has read or written active_call_data, and has not
\* yet answered
InSession(p) ==
  \/ op[p] = "initiate_call" /\ pc[p] # "done"
  \/ /\ op[p] = "process_audio"
     /\ pc[p] \in {"L378", "L382", "L387", "L389", "L177", "L185", "L393",
                   "L397", "L400", "L403", "L408"}

AgentIndices(h) == {i \in 1..Len(h) : h[i].role = "model"}

\* the text of the most recent agent utterance of a history that has one
LastAgentText(h) ==
  h[CHOOSE i \in AgentIndices(h) : \A j \in AgentIndices(h) : j <= i].text

Alternates(h) == \A i \in 1..(Len(h) - 1) : h[i].role # h[i + 1].role

\* the supplied name is empty or not in the directory
Unresolvable(name) == name = "" \/ get_customer_details(name) = None

\* the session a turn of p leaves when it runs from line 376 to line 405,
\* as far as the history goes
TurnCompleted(p) ==
  /\ bot_response_text[p] # ""
  /\ \/ /\ op[p] = "process_audio"
        /\ conversation_history =
             Trimmed(Append(Append(before[p].conversation_history,
                                   UserTurn(transcript[p])),
                            ModelTurn(bot_response_text[p])))
     \/ /\ op[p] = "initiate_call"
        /\ conversation_history = <<ModelTurn(bot_response_text[p])>>

(***************************************************************************)
(* C1.  No two session-mutating operations interleave: while one           *)
(* initiate_call or process_audio is between its first access to the       *)
(* session and its answer, no other one is.                                *)
(***************************************************************************)
C1_NoInterleaving ==
  \A p \in Procs : \A q \in Procs :
    p # q => ~(InSession(p) /\ InSession(q))

(***************************************************************************)
(* C2.  Whenever customer_info is present, asked_for_name_in_last_turn is  *)
(* false, under any interleaving of the three routes.  Stated for the      *)
(* states in which no request is in the middle of its statements.          *)
(***************************************************************************)
C2_FlagFalseWhenKnown ==
  (Quiet /\ customer_info # None) => ~asked_for_name_in_last_turn

(***************************************************************************)
(* C3.  Original: whenever the flag is true at the end of an operation,    *)
(* customer_info is absent and the most recent agent utterance satisfies   *)
(* the name-request rule.                                                  *)
(***************************************************************************)
C3_FlagMeansNameWasRequested ==
  \A p \in Procs :
    (pc[p] = "done" /\ asked_for_name_in_last_turn) =>
      /\ customer_info = None
      /\ AgentIndices(conversation_history) # {}
      /\ AsksForName(LastAgentText(conversation_history))

(***************************************************************************)
(* C3, amended.  Whenever the flag is true at the end of an operation,     *)
(* customer_info is absent and the history ends with an agent utterance    *)
(* that satisfies the name-request rule or is the opening utterance of     *)
(* the call, the only entry of the history.                                *)
(***************************************************************************)
C3_FlagMeansNameExpected ==
  \A p \in Procs :
    (pc[p] = "done" /\ asked_for_name_in_last_turn) =>
      /\ customer_info = None
      /\ conversation_history # << >>
      /\ conversation_history[Len(conversation_history)].role = "model"
      /\ \/ AsksForName(conversation_history[Len(conversation_history)].text)
         \/ Len(conversation_history) = 1

\* a turn has ended with the flag set by the test of the reply
C3_Witness ==
  \E p \in Procs :
    /\ Ended(p, "process_audio")
    /\ asked_for_name_in_last_turn
    /\ Len(conversation_history) > 1
    /\ bot_response_text[p] = "Could you tell me your NAME?"

(***************************************************************************)
(* C4.  An operation that ends in an error leaves the session as it found  *)
(* it or as a completed turn leaves it.                                    *)
(***************************************************************************)
C4_ErrorLeavesSessionWhole ==
  \A p \in Procs :
    (pc[p] = "done" /\ failure[p] # "") =>
      (Session = before[p] \/ TurnCompleted(p))

(***************************************************************************)
(* C5.  A turn whose transcript is empty, or whose transcription failed,   *)
(* leaves customer_info, conversation_history and the flag as they were    *)
(* when it began.                                                          *)
(***************************************************************************)
C5_EmptyTranscriptLeavesSession ==
  \A p \in Procs :
    (op[p] = "process_audio" /\ transcript[p] = "") => Session = before[p]

\* an empty transcript has been answered in the middle of a call
C5_Witness ==
  \E p \in Procs :
    /\ Ended(p, "process_audio")
    /\ transcript[p] = ""
    /\ response[p] = Audio(200, DIDNT_CATCH_TEXT)
    /\ before[p].conversation_history # << >>
    /\ before[p].asked_for_name_in_last_turn

(***************************************************************************)
(* C6.  Original: after an initiate_call whose name the directory          *)
(* resolves, customer_info is the record found, and the flag is not true   *)
(* at any point until the next initiate_call.                              *)
(***************************************************************************)
C6_ResolvedNeverAwaits ==
  /\ started_resolved => ~asked_for_name_in_last_turn
  /\ \A p \in Procs :
       (Ended(p, "initiate_call") /\ ~Unresolvable(customer_name_input[p])) =>
         customer_info = get_customer_details(customer_name_input[p])

(***************************************************************************)
(* C6, amended.  After an initiate_call whose name the directory resolves, *)
(* customer_info is the record found, and until the next initiate_call or  *)
(* load of the index page customer_info stays present and the flag is not  *)
(* true at any point.                                                      *)
(***************************************************************************)
C6_ResolvedNeverAwaitsUntilReset ==
  /\ (started_resolved /\ ~page_reloaded) =>
       (~asked_for_name_in_last_turn /\ customer_info # None)
  /\ \A p \in Procs :
       (Ended(p, "initiate_call") /\ ~Unresolvable(customer_name_input[p])) =>
         customer_info = get_customer_details(customer_name_input[p])

\* in a call started with a resolved name, a turn has ended whose reply
\* asks for a name
C6_Witness ==
  \E p \in Procs :
    /\ Ended(p, "process_audio")
    /\ started_resolved /\ ~page_reloaded
    /\ AsksForName(bot_response_text[p])
    /\ conversation_history[Len(conversation_history)] =
         ModelTurn(bot_response_text[p])

(***************************************************************************)
(* C7.  When initiate_call is given an empty name, or one the directory    *)
(* does not resolve, it ends with the flag true and customer_info absent,  *)
(* the prompt having been the one of the unknown customer.                 *)
(***************************************************************************)
C7_UnresolvedStartAwaitsName ==
  \A p \in Procs :
    (Ended(p, "initiate_call") /\ Unresolvable(customer_name_input[p])) =>
      /\ asked_for_name_in_last_turn
      /\ customer_info = None
      /\ system_prompt[p].customer_name = UNKNOWN_CUSTOMER_PLACEHOLDER

\* a call has started with a name the directory does not have, and the
\* reply was the apology of the dialogue engine
C7_Witness ==
  \E p \in Procs :
    /\ Ended(p, "initiate_call")
    /\ customer_name_input[p] = "Jane Smith"
    /\ bot_response_text[p] = TROUBLE_CONNECTING_REPLY
    /\ asked_for_name_in_last_turn

(***************************************************************************)
(* C8.  initiate_call resets the session whatever it was before: once the  *)
(* dialogue engine has replied, the session it ends in is a function of    *)
(* the supplied name and of the reply alone; the history holds the reply   *)
(* and nothing else.                                                       *)
(***************************************************************************)
C8_StartCallResets ==
  \A p \in Procs :
    (Ended(p, "initiate_call") /\ bot_response_text[p] # "") =>
      /\ conversation_history = <<ModelTurn(bot_response_text[p])>>
      /\ customer_info =
           IF Unresolvable(customer_name_input[p]) THEN None
           ELSE get_customer_details(customer_name_input[p])
      /\ asked_for_name_in_last_turn = Unresolvable(customer_name_input[p])

\* a call has started without a name over the session of an identified
\* caller
C8_Witness ==
  \E p \in Procs :
    /\ Ended(p, "initiate_call")
    /\ bot_response_text[p] # ""
    /\ customer_name_input[p] = ""
    /\ before[p].customer_info # None
    /\ before[p].conversation_history # << >>
    /\ customer_info = None

(***************************************************************************)
(* C9.  After every initiate_call and process_audio that was answered      *)
(* with audio, the history holds at most 2 * MAX_HISTORY_TURNS entries.    *)
(***************************************************************************)
C9_HistoryBounded ==
  \A p \in Procs :
    (pc[p] = "done" /\ response[p].status = 200) =>
      Len(conversation_history) <= 2 * MAX_HISTORY_TURNS

(***************************************************************************)
(* C10.  With requests served one at a time, after every initiate_call and *)
(* process_audio that was answered with audio, the roles of the history    *)
(* alternate.                                                              *)
(***************************************************************************)
C10_RolesAlternate ==
  \A p \in Procs :
    (pc[p] = "done" /\ response[p].status = 200) =>
      Alternates(conversation_history)

\* the turn of p has just run lines 402-406
AfterTrim(p) == op[p] = "process_audio" /\ pc[p] = "L408"

\* the history as lines 376 and 400 of the turn of p left it, before
\* line 403, when requests are served one at a time
Untrimmed(p) ==
  Append(Append(before[p].conversation_history, UserTurn(transcript[p])),
         ModelTurn(bot_response_text[p]))

(***************************************************************************)
(* C11.  Original: after lines 402-406 the history is the most recent      *)
(* suffix of the untrimmed history, and the entries removed are complete   *)
(* customer/agent pairs, the first trim of a call that began with the      *)
(* greeting included.                                                      *)
(***************************************************************************)
C11_TrimDropsWholePairs ==
  \A p \in Procs :
    AfterTrim(p) =>
      LET u == Untrimmed(p)
          k == Len(u) - Len(conversation_history)
      IN  /\ conversation_history = LastN(u, Len(conversation_history))
          /\ k % 2 = 0
          /\ \A i \in 1..k :
               u[i].role = IF i % 2 = 1 THEN "user" ELSE "model"

(***************************************************************************)
(* C11, amended.  After lines 402-406 the history is the last              *)
(* 2 * MAX_HISTORY_TURNS entries of the untrimmed history (all of it when  *)
(* it has no more).  When the roles of the untrimmed history alternate, a  *)
(* trim removes the greeting alone if the history began with it, and one   *)
(* complete customer/agent pair otherwise.                                 *)
(***************************************************************************)
C11_TrimKeepsLatestEntries ==
  \A p \in Procs :
    AfterTrim(p) =>
      LET u == Untrimmed(p)
          k == Len(u) - Len(conversation_history)
      IN  /\ conversation_history = LastN(u, 2 * MAX_HISTORY_TURNS)
          /\ (Alternates(u) /\ k > 0) =>
               IF u[1].role = "model" THEN k = 1
               ELSE k = 2 /\ u[1].role = "user" /\ u[2].role = "model"

\* a trim has removed a customer utterance and the reply to it, in a call
\* whose greeting an earlier trim had removed
C11_Witness ==
  \E p \in Procs :
    /\ AfterTrim(p)
    /\ Len(Untrimmed(p)) = 2 * MAX_HISTORY_TURNS + 2
    /\ Alternates(Untrimmed(p))
    /\ Len(conversation_history) = 2 * MAX_HISTORY_TURNS
    /\ conversation_history[1].role = "user"

(***************************************************************************)
(* C12.  Once customer_info is present, no process_audio clears it or      *)
(* replaces it with another record, whatever the caller says: a turn that  *)
(* finds customer_info present leaves it as it found it.                   *)
(***************************************************************************)
C12_TurnKeepsIdentity ==
  \A p \in Procs :
    (op[p] = "process_audio" /\ before[p].customer_info # None) =>
      customer_info = before[p].customer_info

\* an identified caller has said the name of another customer of the
\* directory, and the turn has been answered
C12_Witness ==
  \E p \in Procs :
    /\ Ended(p, "process_audio")
    /\ before[p].customer_info # None
    /\ transcript[p] # ""
    /\ get_customer_details(Strip(transcript[p])) # None
    /\ get_customer_details(Strip(transcript[p])) # before[p].customer_info
    /\ response[p].status = 200

\* the turn of p began with the session awaiting a name, and its
\* transcript is not empty and is not a name of the directory
RejectedName(p) ==
  /\ op[p] = "process_audio"
  /\ before[p].asked_for_name_in_last_turn
  /\ before[p].customer_info = None
  /\ transcript[p] # ""
  /\ get_customer_details(Strip(transcript[p])) = None

(***************************************************************************)
(* C13.  Original: when a turn that began awaiting a name, with a          *)
(* transcript the directory does not resolve, completes, the flag is       *)
(* false, customer_info is still absent, and the history has gained the    *)
(* customer utterance followed by the agent utterance.                     *)
(***************************************************************************)
C13_RejectedNameStopsAwaiting ==
  \A p \in Procs :
    (RejectedName(p) /\ pc[p] = "done") =>
      /\ ~asked_for_name_in_last_turn
      /\ customer_info = None
      /\ Len(before[p].conversation_history) + 2 <= 2 * MAX_HISTORY_TURNS =>
           conversation_history = Untrimmed(p)

(***************************************************************************)
(* C13, amended.  The same, except that the flag is false only when the    *)
(* agent reply of the turn does not satisfy the name-request rule; when    *)
(* it does, the turn ends with the flag true.                              *)
(***************************************************************************)
C13_RejectedNameFollowsReply ==
  \A p \in Procs :
    (RejectedName(p) /\ pc[p] = "done") =>
      /\ asked_for_name_in_last_turn = AsksForName(bot_response_text[p])
      /\ customer_info = None
      /\ Len(before[p].conversation_history) + 2 <= 2 * MAX_HISTORY_TURNS =>
           conversation_history = Untrimmed(p)

\* "Jane Smith" was said to a session awaiting a name, the reply asked
\* nothing about a name, and the turn was answered with that reply
C13_Witness ==
  \E p \in Procs :
    /\ RejectedName(p) /\ pc[p] = "done"
    /\ transcript[p] = "Jane Smith"
    /\ bot_response_text[p] = "What is your preferred payment date?"
    /\ response[p] = Audio(200, bot_response_text[p])
    /\ ~asked_for_name_in_last_turn
    /\ Len(conversation_history) = 3

(***************************************************************************)
(* C14.  With gemini_configured false, in every process_audio that began   *)
(* with the flag true and customer_info absent, the reply of               *)
(* call_gemini_model is the clarification mock of line 183.                *)
(***************************************************************************)
C14_MockClarifiesWhenAwaiting ==
  \A p \in Procs :
    ( /\ op[p] = "process_audio"
      /\ ~gemini_configured
      /\ before[p].asked_for_name_in_last_turn
      /\ before[p].customer_info = None
      /\ bot_response_text[p] # "" ) =>
      bot_response_text[p] = MOCK_CLARIFY

(***************************************************************************)
(* C15.  generate_system_prompt never raises: no initiate_call and no      *)
(* process_audio is aborted by the composition of the prompt, whatever     *)
(* record of the directory customer_info holds.                            *)
(***************************************************************************)
C15_ComposerNeverRaises ==
  \A p \in Procs : failure[p] # "prompt"

(***************************************************************************)
(* C16.  call_gemini_model returns a non-empty utterance whatever the      *)
(* backend does (a text, a text of blanks, a blocked answer, an exception, *)
(* no backend at all), so the routes go on with a reply and every agent    *)
(* utterance of the history is non-empty.                                  *)
(***************************************************************************)
C16_EngineAlwaysReplies ==
  /\ \A p \in Procs :
       pc[p] \in {"L327", "L330", "L333", "L336",
                  "L393", "L397", "L400", "L403", "L408"} =>
         bot_response_text[p] # ""
  /\ \A i \in 1..Len(conversation_history) :
       conversation_history[i].role = "model" =>
         conversation_history[i].text # ""

\* the history holds the replies to a backend exception and to an answer
\* of blanks, one after the other
C16_Witness ==
  /\ gemini_configured
  /\ Len(conversation_history) = 3
  /\ conversation_history[1] = ModelTurn(TROUBLE_CONNECTING_REPLY)
  /\ conversation_history[3] = ModelTurn(LOSS_FOR_WORDS_REPLY)

(***************************************************************************)
(* C17.  Every call of text_to_speech makes one or two requests to the     *)
(* provider: the second is made exactly when the first raised or came      *)
(* back without a stream or without audio, it says the fallback phrase     *)
(* instead of the text, and text_to_speech raises exactly when both        *)
(* requests fail.                                                          *)
(***************************************************************************)
C17_AtMostOneRetry ==
  \A p \in Procs :
    tts_call[p] # NoTtsCall =>
      LET c == tts_call[p]
          r == tts_call[p].result
      IN  /\ r.attempts \in {1, 2}
          /\ (r.attempts = 2) = (c.first \in {"raise", "no_stream", "empty_audio"})
          /\ (c.second = "not_called") = (c.first = "audio")
          /\ c.first = "audio" =>
               (r.ok /\ r.said = IF c.text = "" THEN TTS_EMPTY_TEXT ELSE c.text)
          /\ (r.attempts = 2 /\ r.ok) => r.said = TTS_FALLBACK_TEXT
          /\ (~r.ok) = (c.first # "audio" /\ c.second # "audio")

\* the provider returned no audio for a reply and then spoke the fallback
\* phrase, which is what the caller was sent
C17_Witness ==
  \E p \in Procs :
    /\ pc[p] = "done"
    /\ tts_call[p].text = bot_response_text[p]
    /\ bot_response_text[p] # ""
    /\ tts_call[p].first = "empty_audio"
    /\ tts_call[p].second = "audio"
    /\ response[p] = Audio(200, TTS_FALLBACK_TEXT)

\* the request of p was a process_audio with audio in it, and has been
\* answered
AudioTurnEnded(p) ==
  /\ Ended(p, "process_audio")
  /\ response[p] # Json(400, "No audio data")

RepliedToUnknown(p) ==
  /\ pc[p] = "done"
  /\ op[p] \in {"initiate_call", "process_audio"}
  /\ bot_response_text[p] # ""
  /\ customer_info = None

(***************************************************************************)
(* C19.  Original: after every reply produced while customer_info is       *)
(* absent, in initiate_call as well as in process_audio, the flag equals   *)
(* the name-request rule applied to the reply.                             *)
(***************************************************************************)
C19_FlagFollowsReply ==
  \A p \in Procs :
    RepliedToUnknown(p) =>
      asked_for_name_in_last_turn = AsksForName(bot_response_text[p])

(***************************************************************************)
(* C19, amended.  After every reply produced while customer_info is        *)
(* absent, the flag equals the name-request rule applied to the reply in   *)
(* process_audio, and is true whatever the reply in initiate_call.         *)
(***************************************************************************)
C19_FlagFollowsReplyInTurns ==
  \A p \in Procs :
    RepliedToUnknown(p) =>
      asked_for_name_in_last_turn =
        IF op[p] = "process_audio" THEN AsksForName(bot_response_text[p])
        ELSE TRUE

\* a turn that began with the flag false has ended with the flag true,
\* the reply having asked for the name
C19_Witness ==
  \E p \in Procs :
    /\ RepliedToUnknown(p)
    /\ op[p] = "process_audio"
    /\ ~before[p].asked_for_name_in_last_turn
    /\ bot_response_text[p] = "What is your full name?"
    /\ asked_for_name_in_last_turn

\* the turn of p began with the session awaiting a name, and its
\* transcript is a name of the directory
ResolvedName(p) ==
  /\ op[p] = "process_audio"
  /\ before[p].asked_for_name_in_last_turn
  /\ before[p].customer_info = None
  /\ transcript[p] # ""
  /\ get_customer_details(Strip(transcript[p])) # None

(***************************************************************************)
(* C20.  In a process_audio whose transcript the directory resolves while  *)
(* the session awaits a name, customer_info is the record found and the    *)
(* flag is false from the composition of the prompt to the end of the      *)
(* turn, and the prompt call_gemini_model is given is the prompt of that   *)
(* record.                                                                 *)
(***************************************************************************)
C20_ResolvedTurnUsesRecord ==
  \A p \in Procs :
    ResolvedName(p) =>
      LET rec == get_customer_details(Strip(transcript[p]))
      IN  /\ pc[p] \in {"L389", "L177", "L185", "L393", "L397", "L400",
                        "L403", "L408", "L415", "done"} =>
                (customer_info = rec /\ ~asked_for_name_in_last_turn)
          /\ pc[p] \in {"L177", "L185", "L393", "L397", "L400", "L403",
                        "L408"} =>
                /\ system_prompt[p] = generate_system_prompt(rec)
                /\ system_prompt[p].customer_name = rec.Random_Name
          /\ system_prompt[p] # NoPrompt =>
                system_prompt[p] = generate_system_prompt(rec)

\* a caller asked for a name said "John Doe", and the turn was answered
\* with a reply made from the prompt of John Doe
C20_Witness ==
  \E p \in Procs :
    /\ ResolvedName(p) /\ pc[p] = "done"
    /\ transcript[p] = "John Doe"
    /\ system_prompt[p].customer_name = "John Doe"
    /\ system_prompt[p].loan_amount = "$10,000.00"
    /\ customer_info = customer_df[1]
    /\ ~asked_for_name_in_last_turn
    /\ response[p] = Audio(200, bot_response_text[p])

(***************************************************************************)
(* C21.  When the transcription fails (transcribe_file raises, or answers  *)
(* without results) the caller is sent the same spoken "didn't catch       *)
(* that" as for an empty transcript, with status 200.  Stated for the      *)
(* turns without a transcript whose calls of text_to_speech all            *)
(* succeeded at the first request.                                         *)
(***************************************************************************)
C21_FailedTranscriptionReprompts ==
  \A p \in Procs :
    ( /\ AudioTurnEnded(p)
      /\ transcript[p] = ""
      /\ failure[p] # "tts"
      /\ tts_call[p].first = "audio" ) =>
      response[p] = Audio(200, DIDNT_CATCH_TEXT)

\* the lines of process_audio_route after the lookup of lines 378-382
AfterLookup ==
  {"L387", "L389", "L177", "L185", "L393", "L397", "L400", "L403", "L408",
   "L415", "done"}

(***************************************************************************)
(* C22.  After a name the caller said was looked up and not found, a       *)
(* reply that satisfies the name-request rule sets the flag again, and     *)
(* the transcript of a turn that begins with the flag set is looked up     *)
(* again: if the directory has it, customer_info becomes its record.       *)
(***************************************************************************)
C22_RejectedNameCanBeRetried ==
  \A p \in Procs :
    /\ (name_rejected /\ ResolvedName(p) /\ pc[p] \in AfterLookup) =>
         customer_info = get_customer_details(Strip(transcript[p]))
    /\ (name_rejected /\ RepliedToUnknown(p) /\ op[p] = "process_audio") =>
         asked_for_name_in_last_turn = AsksForName(bot_response_text[p])

\* "Jane Smith" was not found, the reply asked for the name again, and
\* the next turn found "John Doe"
C22_Witness ==
  \E p \in Procs :
    /\ name_rejected
    /\ ResolvedName(p) /\ pc[p] = "done"
    /\ Len(before[p].conversation_history) = 3
    /\ before[p].conversation_history[2] = UserTurn("Jane Smith")
    /\ AsksForName(before[p].conversation_history[3].text)
    /\ transcript[p] = "John Doe"
    /\ customer_info = customer_df[1]

(***************************************************************************)
(* C23.  A process_audio that begins with the flag false looks nothing up  *)
(* and leaves customer_info as it found it, even when the transcript is a  *)
(* name of the directory; a process_audio changes customer_info only if    *)
(* it began with the flag true and customer_info absent.                   *)
(***************************************************************************)
C23_LookupOnlyWhenAwaiting ==
  \A p \in Procs :
    op[p] = "process_audio" =>
      /\ ~before[p].asked_for_name_in_last_turn =>
           (customer_info = before[p].customer_info /\ customer_details[p] = None)
      /\ customer_info # before[p].customer_info =>
           /\ before[p].asked_for_name_in_last_turn
           /\ before[p].customer_info = None

\* "John Doe" was said to a session that knew no customer and was not
\* awaiting a name, and the turn was answered with customer_info still
\* absent
C23_Witness ==
  \E p \in Procs :
    /\ Ended(p, "process_audio")
    /\ ~before[p].asked_for_name_in_last_turn
    /\ before[p].customer_info = None
    /\ transcript[p] = "John Doe"
    /\ response[p] = Audio(200, bot_response_text[p])
    /\ customer_info = None
    /\ customer_details[p] = None

(***************************************************************************)
(* C24.  No state crosses from one call into the next, even when a         *)
(* process_audio is in flight when initiate_call resets the session: a     *)
(* turn that began before the initiate_call writes neither the history     *)
(* nor customer_info nor the flag after it.                                *)
(***************************************************************************)
C24_NoWriteAcrossCalls ==
  [][\A p \in Procs :
       (overtaken[p] /\ pc'[p] # pc[p]) => session' = session]_vars

====
